---- MODULE Spec2Model ----
(***************************************************************************)
(* A model of launchy's protocol codec (generic and MK2 input decoding,    *)
(* the device/version inquiry sub-protocol) and of the Launchpad Mini      *)
(* canvas flush.                                                           *)
(***************************************************************************)
EXTENDS Integers, Sequences, FiniteSets, TLC

VARIABLES
    \* ---- codec ----
    data,             \* the inbound byte buffer handed to the decoders
    overflow_checks,  \* build profile: TRUE = debug (u8 overflow panics), FALSE = release (wraps)
    crashed,          \* a decoder or request panicked
    msg_generic,      \* result of generic decode_message on data
    msg_mk2,          \* result of MK2 decode_message on data
    device_query,     \* result of parse_device_query on data
    version_query,    \* result of parse_version_query on data
    \* ---- Launchpad Mini canvas ----
    new_state,        \* pending colors, by cell of the bounding box
    curr_state,       \* last-flushed colors
    changes,          \* the change list handed to the last Spec::flush
    sent,             \* the commands the transport accepted during the last flush
    attempts,         \* number of send calls made by the last flush
    reads,            \* cells read with get_new_unchecked by the last flush, in order
    flush_result,     \* "Idle", "Ok" or "Err"
    failed_at,        \* index of the send that failed in the last flush, 0 if none
    paints,           \* frames painted so far
    flushes,          \* flush calls so far
    device_mode,      \* the device's display mode: "Normal" or "RapidUpdate"
    rapid_cursor,     \* cells the device's rapid-update cursor has advanced over
    writes,           \* cells the device wrote for the paired commands of the last flush
    \* ---- inquiry requests ----
    query,            \* the last request made
    wire,             \* the messages the last request handed to output.send
    request_result,   \* "Idle", "Ok", "Err" or "Panic"
    requests          \* requests made so far

codec_vars == <<data, overflow_checks, crashed, msg_generic, msg_mk2, device_query, version_query>>

canvas_vars == <<new_state, curr_state, changes, sent, attempts, reads, flush_result, failed_at,
                 paints, flushes, device_mode, rapid_cursor, writes>>

query_vars == <<query, wire, request_result, requests>>

vars == <<codec_vars, canvas_vars, query_vars>>

(***************************************************************************)
(* Byte buffers                                                            *)
(***************************************************************************)
Byte == 0..255

\* Rust slice pattern with fixed bytes: tmpl[i] = -1 is a binding position.
MatchesTemplate(d, tmpl) ==
    /\ Len(d) = Len(tmpl)
    /\ \A i \in 1..Len(tmpl) : tmpl[i] = -1 \/ d[i] = tmpl[i]

from_be_bytes(hi, lo) == hi * 256 + lo

Idle == [type |-> "Idle"]

Panic(why) == [type |-> "Panic", reason |-> why]

(***************************************************************************)
(* generic/input.rs                                                        *)
(***************************************************************************)
generic_decode_grid_button(btn) ==
    [kind |-> "GridButton", x |-> btn % 16, y |-> btn \div 16]

\* match velocity { 0 => Release, 127 => Press, other => panic!(..) }
generic_match_velocity(button, velocity, what) ==
    IF velocity = 0 THEN [type |-> "Release", button |-> button]
    ELSE IF velocity = 127 THEN [type |-> "Press", button |-> button]
    ELSE Panic(what)

generic_decode_short_message(d) ==
    IF d[1] = 144
    THEN generic_match_velocity(generic_decode_grid_button(d[2]), d[3],
                                "Unexpected grid note-on velocity")
    ELSE IF d[1] = 176 /\ d[2] \in 104..111
    THEN generic_match_velocity([kind |-> "ControlButton", index |-> d[2] - 104], d[3],
                        "Unexpected control note-on velocity")
    ELSE Panic("Unexpected midi message")

TextEndedTemplate == <<240, 0, 32, 41, 2, 24, 21, 247>>

DeviceInquiryTemplate == <<240, 126, -1, 6, 2, 0, 32, 41, -1, -1, -1, -1, -1, -1, -1, -1, 247>>

VersionHeader == <<240, 0, 32, 41, 0, 112>>

\* &[240, 0, 32, 41, 0, 112, ref data @ .., bs1, bs2, 247]
MatchesVersionSlice(d) ==
    /\ Len(d) >= 9
    /\ SubSeq(d, 1, 6) = VersionHeader
    /\ d[Len(d)] = 247

generic_device_inquiry_arm(d) ==
    [type |-> "DeviceInquiry",
     device_id |-> d[3],
     family_code |-> from_be_bytes(d[9], d[10]),
     family_member_code |-> from_be_bytes(d[11], d[12]),
     firmware_revision |-> d[13] * 1000 + d[14] * 100 + d[15] * 10 + d[16]]

\* the arm binding `ref data @ ..` and converting it to [u8; 12]
generic_version_inquiry_arm(d) ==
    LET inner == SubSeq(d, 7, Len(d) - 3)
        bs1 == d[Len(d) - 2]
        bs2 == d[Len(d) - 1]
    IN  IF Len(inner) # 12 THEN Panic("Invalid version inquiry response length")
        ELSE [type |-> "VersionInquiry",
              bootloader_version |-> inner[1] * 10000 + inner[2] * 1000 + inner[3] * 100
                                     + inner[4] * 10 + inner[5],
              firmware_version |-> inner[6] * 10000 + inner[7] * 1000 + inner[8] * 100
                                   + inner[9] * 10 + inner[10],
              bootloader_size |-> from_be_bytes(bs1, bs2)]

generic_decode_sysex_message(d) ==
    IF d = TextEndedTemplate THEN [type |-> "TextEndedOrLooped"]
    ELSE IF MatchesTemplate(d, DeviceInquiryTemplate) THEN generic_device_inquiry_arm(d)
    ELSE IF MatchesVersionSlice(d) THEN generic_version_inquiry_arm(d)
    ELSE Panic("Unexpected sysex message")

generic_decode_message(d) ==
    IF Len(d) = 3 THEN generic_decode_short_message(d) ELSE generic_decode_sysex_message(d)

(***************************************************************************)
(* launchpad_mk2/input.rs                                                  *)
(***************************************************************************)
\* u8 subtraction: panics with overflow checks on, wraps otherwise.
Overflow == [kind |-> "Overflow"]

u8_sub(a, b, checks) ==
    IF a >= b THEN a - b
    ELSE IF checks THEN -1 ELSE a - b + 256

mk2_decode_grid_button_rowflip(btn, checks) ==
    LET x == u8_sub(btn % 10, 1, checks)
        y == u8_sub(btn \div 10, 1, checks)
    IN  IF x = -1 \/ y = -1 THEN Overflow
        ELSE [kind |-> "GridButton", x |-> x, y |-> y]

mk2_decode_grid_button(btn, checks) ==
    LET x == u8_sub(btn % 10, 1, checks)
        y == u8_sub(8, btn \div 10, checks)
    IN  IF x = -1 \/ y = -1 THEN Overflow
        ELSE [kind |-> "GridButton", x |-> x, y |-> y]

mk2_match_velocity(button, velocity, what) ==
    IF velocity = 0 THEN [type |-> "Release", button |-> button]
    ELSE IF velocity = 127 THEN [type |-> "Press", button |-> button]
    ELSE Panic(what)

mk2_decode_short_message(d, checks) ==
    IF d[1] = 144
    THEN LET button == mk2_decode_grid_button(d[2], checks)
         IN  IF button = Overflow THEN Panic("attempt to subtract with overflow")
             ELSE mk2_match_velocity(button, d[3], "Unexpected grid note-on velocity")
    ELSE IF d[1] = 176 /\ d[2] \in 104..111
    THEN mk2_match_velocity([kind |-> "ControlButton", index |-> d[2] - 104], d[3],
                        "Unexpected control note-on velocity")
    ELSE IF d[1] = 176 /\ d[2] \in 21..28
    THEN [type |-> "FaderChange", index |-> d[2] - 21, value |-> d[3]]
    ELSE Panic("Unexpected midi message")

mk2_device_inquiry_arm(d) ==
    [type |-> "DeviceInquiry",
     device_id |-> d[3],
     family_code |-> from_be_bytes(d[9], d[10]),
     family_member_code |-> from_be_bytes(d[11], d[12]),
     firmware_revision |-> d[13] * 1000 + d[14] * 100 + d[15] * 10 + d[16]]

mk2_version_inquiry_arm(d) ==
    LET inner == SubSeq(d, 7, Len(d) - 3)
        bs1 == d[Len(d) - 2]
        bs2 == d[Len(d) - 1]
    IN  IF Len(inner) # 12 THEN Panic("Invalid version inquiry response length")
        ELSE [type |-> "VersionInquiry",
              bootloader_version |-> inner[1] * 10000 + inner[2] * 1000 + inner[3] * 100
                                     + inner[4] * 10 + inner[5],
              firmware_version |-> inner[6] * 10000 + inner[7] * 1000 + inner[8] * 100
                                   + inner[9] * 10 + inner[10],
              bootloader_size |-> from_be_bytes(bs1, bs2)]

mk2_decode_sysex_message(d) ==
    IF d = TextEndedTemplate THEN [type |-> "TextEndedOrLooped"]
    ELSE IF MatchesTemplate(d, DeviceInquiryTemplate) THEN mk2_device_inquiry_arm(d)
    ELSE IF MatchesVersionSlice(d) THEN mk2_version_inquiry_arm(d)
    ELSE Panic("Unexpected sysex message")

mk2_decode_message(d, checks) ==
    IF Len(d) = 3 THEN mk2_decode_short_message(d, checks) ELSE mk2_decode_sysex_message(d)

(***************************************************************************)
(* protocols/query.rs: parsers                                             *)
(***************************************************************************)
None == [type |-> "None"]

query_device_inquiry(d) ==
    [type |-> "DeviceInquiry",
     device_id |-> d[3],
     family_code |-> from_be_bytes(d[9], d[10]),
     family_member_code |-> from_be_bytes(d[11], d[12]),
     firmware_revision |-> d[13] * 1000 + d[14] * 100 + d[15] * 10 + d[16]]

parse_device_query_no_length(d) ==
    IF Len(d) >= 17 /\ MatchesTemplate(SubSeq(d, 1, 16) \o <<247>>, DeviceInquiryTemplate)
    THEN query_device_inquiry(d)
    ELSE None

parse_device_query(d) ==
    IF MatchesTemplate(d, DeviceInquiryTemplate) THEN query_device_inquiry(d) ELSE None

VersionQueryTemplate == <<240, 0, 32, 41, 0, 112, -1, -1, -1, -1, -1, -1, -1, -1, -1, -1, 247>>

\* bl1..bl4 = d[7..10], fw1..fw4 = d[11..14], bs1 bs2 = d[15], d[16];
\* data[0] and data[5] are the first and sixth byte of the whole buffer.
parse_version_query(d) ==
    IF MatchesTemplate(d, VersionQueryTemplate)
    THEN [type |-> "VersionInquiry",
          bootloader_version |-> d[1] * 10000 + d[7] * 1000 + d[8] * 100 + d[9] * 10 + d[10],
          firmware_version |-> d[6] * 10000 + d[11] * 1000 + d[12] * 100 + d[13] * 10 + d[14],
          bootloader_size |-> from_be_bytes(d[15], d[16])]
    ELSE None

(***************************************************************************)
(* Inbound buffers delivered by the transport                              *)
(***************************************************************************)
StatusBytes == {128, 144, 176}

Velocities == {0, 5, 127}

ShortInputs == {<<s, b, v>> : s \in StatusBytes, b \in Byte, v \in Velocities}

DeviceIds == {0, 1, 127}

BytePairs == {<<0, 19>>, <<0, 2>>, <<1, 2>>, <<255, 255>>}

RevisionDigits == {<<1, 2, 0, 1>>, <<0, 0, 0, 0>>, <<9, 9, 9, 9>>, <<0, 255, 3, 4>>}

DeviceReply(id, fc, fmc, fr) == <<240, 126, id, 6, 2, 0, 32, 41>> \o fc \o fmc \o fr \o <<247>>

DeviceReplies ==
    {DeviceReply(id, fc, fmc, fr) : id \in DeviceIds, fc \in BytePairs,
                                    fmc \in BytePairs, fr \in RevisionDigits}

ExampleDeviceReply == <<240, 126, 1, 6, 2, 0, 32, 41, 0, 19, 0, 2, 1, 2, 0, 1, 247>>

FixedPositions(tmpl) == {i \in 1..Len(tmpl) : tmpl[i] # -1}

\* the example reply with one fixed byte altered, or with its length altered
BrokenDeviceReplies ==
    {[ExampleDeviceReply EXCEPT ![i] = (@ + 1) % 256] : i \in FixedPositions(DeviceInquiryTemplate)}
    \cup {SubSeq(ExampleDeviceReply, 1, 15) \o <<247>>,
          SubSeq(ExampleDeviceReply, 1, 16) \o <<7, 247>>,
          SubSeq(ExampleDeviceReply, 1, 16)}

PayloadLengths == {0, 1, 2, 3, 9, 10, 11, 12, 13, 14, 15}

PayloadSeeds == {1, 3, 7}

Payload(len, seed) == [i \in 1..len |-> IF seed = 7 /\ i = 2 THEN 200 ELSE (i * seed) % 10]

VersionReplies ==
    {VersionHeader \o Payload(len, seed) \o <<247>> : len \in PayloadLengths, seed \in PayloadSeeds}

OtherBuffers ==
    {<<>>, <<240, 247>>, <<1, 2>>, TextEndedTemplate, <<240, 0, 32, 41, 2, 24, 22, 247>>,
     VersionHeader \o <<1, 2, 3, 4, 5, 6, 7, 8, 9, 0, 1, 2, 246>>}

InboundBuffers ==
    ShortInputs \cup DeviceReplies \cup BrokenDeviceReplies \cup VersionReplies \cup OtherBuffers

(***************************************************************************)
(* Codec actions                                                           *)
(***************************************************************************)
CanvasIdle ==
    /\ new_state = [c \in {<<x, y>> : x \in 0..8, y \in 0..8} |-> <<0, 0, 0>>]
    /\ curr_state = new_state
    /\ changes = <<>>
    /\ sent = <<>>
    /\ attempts = 0
    /\ reads = <<>>
    /\ flush_result = "Idle"
    /\ failed_at = 0
    /\ paints = 0
    /\ flushes = 0
    /\ device_mode = "Normal"
    /\ rapid_cursor = 0
    /\ writes = <<>>

QueryIdle ==
    /\ query = [kind |-> "None"]
    /\ wire = <<>>
    /\ request_result = "Idle"
    /\ requests = 0

CodecInit ==
    /\ CanvasIdle
    /\ QueryIdle
    /\ data = <<>>
    /\ overflow_checks \in BOOLEAN
    /\ crashed = FALSE
    /\ msg_generic = Idle
    /\ msg_mk2 = Idle
    /\ device_query = Idle
    /\ version_query = Idle

\* The transport hands over the next buffer once the previous one has been handled.
Handled ==
    \/ data = <<>> /\ msg_generic = Idle /\ msg_mk2 = Idle /\ device_query = Idle /\ version_query = Idle
    \/ msg_generic # Idle /\ msg_mk2 # Idle /\ device_query # Idle /\ version_query # Idle

Deliver ==
    /\ ~crashed
    /\ Handled
    /\ \E d \in InboundBuffers : data' = d
    /\ msg_generic' = Idle
    /\ msg_mk2' = Idle
    /\ device_query' = Idle
    /\ version_query' = Idle
    /\ UNCHANGED <<overflow_checks, crashed, canvas_vars, query_vars>>

GenericDecodeMessage ==
    /\ ~crashed
    /\ msg_generic = Idle
    /\ msg_generic' = generic_decode_message(data) @@ [input |-> data]
    /\ crashed' = (generic_decode_message(data).type = "Panic")
    /\ UNCHANGED <<data, overflow_checks, msg_mk2, device_query, version_query, canvas_vars, query_vars>>

Mk2DecodeMessage ==
    /\ ~crashed
    /\ msg_mk2 = Idle
    /\ msg_mk2' = mk2_decode_message(data, overflow_checks) @@ [input |-> data]
    /\ crashed' = (mk2_decode_message(data, overflow_checks).type = "Panic")
    /\ UNCHANGED <<data, overflow_checks, msg_generic, device_query, version_query, canvas_vars, query_vars>>

ParseDeviceQuery ==
    /\ ~crashed
    /\ device_query = Idle
    /\ device_query' = parse_device_query(data) @@ [input |-> data]
    /\ UNCHANGED <<data, overflow_checks, crashed, msg_generic, msg_mk2, version_query, canvas_vars, query_vars>>

ParseVersionQuery ==
    /\ ~crashed
    /\ version_query = Idle
    /\ version_query' = parse_version_query(data) @@ [input |-> data]
    /\ UNCHANGED <<data, overflow_checks, crashed, msg_generic, msg_mk2, device_query, canvas_vars, query_vars>>

CodecNext ==
    \/ Deliver
    \/ GenericDecodeMessage
    \/ Mk2DecodeMessage
    \/ ParseDeviceQuery
    \/ ParseVersionQuery

SpecCodec == CodecInit /\ [][CodecNext]_vars

(***************************************************************************)
(* launchpad_mini/mod.rs: Spec                                             *)
(***************************************************************************)
BOUNDING_BOX_WIDTH == 9

BOUNDING_BOX_HEIGHT == 9

COLOR_PRECISION == 4

BoundingBox == {<<x, y>> : x \in 0..(BOUNDING_BOX_WIDTH - 1), y \in 0..(BOUNDING_BOX_HEIGHT - 1)}

is_valid(x, y) ==
    IF x > 8 \/ y > 8 THEN FALSE
    ELSE IF x = 8 /\ y = 0 THEN FALSE
    ELSE TRUE

\* crate::Color channels are modelled as levels 0..ChannelLevels-1 of full
\* precision; quantize maps a channel onto 0..precision-1.
ChannelLevels == 8

quantize(color, precision) ==
    [i \in 1..3 |-> IF (color[i] * precision) \div ChannelLevels < precision - 1
                    THEN (color[i] * precision) \div ChannelLevels
                    ELSE precision - 1]

\* Button80::from_abs: the top row (y = 0) holds the control buttons
from_abs(x, y) ==
    IF y = 0 THEN [kind |-> "ControlButton", index |-> x]
    ELSE [kind |-> "GridButton", x |-> x, y |-> y - 1]

convert_color(color) ==
    LET q == quantize(color, COLOR_PRECISION) IN <<q[1], q[2]>>

set_button_rapid(color1, color2) ==
    [call |-> "set_button_rapid", color1 |-> color1, dbb1 |-> "Copy",
     color2 |-> color2, dbb2 |-> "Copy"]

light(button, color) == [call |-> "light", button |-> button, color |-> color]

\* One planned send: the command, the cells get_new_unchecked reads for it and
\* the cells it brings up to date.
RapidStep(new, c1, c2) ==
    [cmd |-> set_button_rapid(convert_color(new[c1]), convert_color(new[c2])),
     cells |-> <<c1, c2>>, target |-> {c1, c2}]

\* for y in 1..=8 { for x in (0..=7).step_by(2) {..} }
main_body_steps(new) ==
    [i \in 1..32 |-> LET y == 1 + (i - 1) \div 4
                         x == 2 * ((i - 1) % 4)
                     IN  RapidStep(new, <<x, y>>, <<x + 1, y>>)]

\* for y in (1..=8).step_by(2) {..}
scene_launch_steps(new) ==
    [i \in 1..4 |-> LET y == 1 + 2 * (i - 1) IN RapidStep(new, <<8, y>>, <<8, y + 1>>)]

\* for x in (0..=7).step_by(2) {..}
automap_steps_shifted(new) ==
    [i \in 1..4 |-> LET x == 2 * (i - 1) + 1 IN RapidStep(new, <<x, 0>>, <<x + 1, 0>>)]

automap_steps(new) ==
    [i \in 1..4 |-> LET x == 2 * (i - 1) IN RapidStep(new, <<x, 0>>, <<x + 1, 0>>)]

exit_rapid_step(new) ==
    [cmd |-> light([kind |-> "ControlButton", index |-> 0], convert_color(new[<<0, 0>>])),
     cells |-> << <<0, 0>> >>, target |-> {<<0, 0>>}]

rapid_steps(new) ==
    main_body_steps(new) \o scene_launch_steps(new) \o automap_steps(new)
        \o <<exit_rapid_step(new)>>

\* for &(x, y, (r, g, _b)) in changes {..}
direct_steps(chg) ==
    [i \in 1..Len(chg) |-> [cmd |-> light(from_abs(chg[i][1], chg[i][2]),
                                          <<chg[i][3][1], chg[i][3][2]>>),
                            cells |-> <<>>, target |-> {<<chg[i][1], chg[i][2]>>}]]

RAPID_THRESHOLD == 40

flush_steps_rapid_at_threshold(new, chg) ==
    IF Len(chg) >= RAPID_THRESHOLD THEN rapid_steps(new) ELSE direct_steps(chg)

flush_steps(new, chg) ==
    IF Len(chg) > RAPID_THRESHOLD THEN rapid_steps(new) ELSE direct_steps(chg)

\* The `?` after every send: the first failing send ends the flush.  fail is
\* the index of the send the transport rejects (0: none).
sends_skipping_failure(steps, fail) ==
    [tried |-> steps,
     delivered |-> IF fail \in 1..Len(steps)
                   THEN SubSeq(steps, 1, fail - 1) \o SubSeq(steps, fail + 1, Len(steps))
                   ELSE steps,
     result |-> IF fail \in 1..Len(steps) THEN "Err" ELSE "Ok"]

sends_retrying_failure(steps, fail) ==
    [tried |-> IF fail \in 1..Len(steps)
               THEN SubSeq(steps, 1, fail) \o SubSeq(steps, fail, Len(steps))
               ELSE steps,
     delivered |-> steps,
     result |-> "Ok"]

run_sends(steps, fail) ==
    IF fail \in 1..Len(steps)
    THEN [tried |-> SubSeq(steps, 1, fail), delivered |-> SubSeq(steps, 1, fail - 1),
          result |-> "Err"]
    ELSE [tried |-> steps, delivered |-> steps, result |-> "Ok"]

\* the cells read for the sends tried (arguments are evaluated before the send)
RECURSIVE cells_between(_, _, _)
cells_between(steps, lo, hi) ==
    IF lo > hi THEN <<>>
    ELSE IF lo = hi THEN steps[lo].cells
    ELSE cells_between(steps, lo, (lo + hi) \div 2)
            \o cells_between(steps, (lo + hi) \div 2 + 1, hi)

cells_read(tried) == cells_between(tried, 1, Len(tried))

(***************************************************************************)
(* DeviceCanvas: diff, flush and commit                                    *)
(***************************************************************************)
\* row-major iteration over the valid cells
CellAt(i) == <<(i - 1) % BOUNDING_BOX_WIDTH, (i - 1) \div BOUNDING_BOX_WIDTH>>

diff_cell(c, old, new) ==
    IF is_valid(c[1], c[2]) /\ quantize(new[c], COLOR_PRECISION) # quantize(old[c], COLOR_PRECISION)
    THEN << <<c[1], c[2], quantize(new[c], COLOR_PRECISION)>> >>
    ELSE <<>>

RECURSIVE diff_between(_, _, _, _)
diff_between(lo, hi, old, new) ==
    IF lo = hi THEN diff_cell(CellAt(lo), old, new)
    ELSE diff_between(lo, (lo + hi) \div 2, old, new)
            \o diff_between((lo + hi) \div 2 + 1, hi, old, new)

canvas_changes(old, new) == diff_between(1, BOUNDING_BOX_WIDTH * BOUNDING_BOX_HEIGHT, old, new)

\* cells the delivered commands brought up to date
FlushedCells(delivered) == UNION {delivered[i].target : i \in 1..Len(delivered)}

commit(old, new, flushed) == [c \in BoundingBox |-> IF c \in flushed THEN new[c] ELSE old[c]]

(***************************************************************************)
(* The device: rapid-update mode                                           *)
(***************************************************************************)
\* the hardware's traversal of the 80 LEDs: the 8x8 grid row by row, the
\* scene launch column, the Automap/Live row
device_traversal ==
    [k \in 1..80 |-> IF k <= 64 THEN <<(k - 1) % 8, 1 + (k - 1) \div 8>>
                     ELSE IF k <= 72 THEN <<8, k - 64>>
                     ELSE <<k - 73, 0>>]

paired_count(cmds) == Cardinality({i \in 1..Len(cmds) : cmds[i].call = "set_button_rapid"})

\* a paired command enters (or stays in) rapid-update mode, any other command leaves it
device_mode_after(mode, cmds) ==
    IF Len(cmds) = 0 THEN mode
    ELSE IF cmds[Len(cmds)].call = "set_button_rapid" THEN "RapidUpdate"
    ELSE "Normal"

\* every paired command advances the cursor by two cells, any other command resets it
rapid_cursor_after(cursor, cmds) ==
    IF Len(cmds) = 0 THEN cursor
    ELSE IF cmds[Len(cmds)].call = "set_button_rapid"
    THEN (cursor + 2 * paired_count(cmds)) % 80
    ELSE 0

\* the cells the paired commands of one flush land on, starting at the cursor
device_writes(cursor, cmds) ==
    [i \in 1..(2 * paired_count(cmds)) |-> device_traversal[((cursor + i - 1) % 80) + 1]]

(***************************************************************************)
(* Canvas actions                                                          *)
(***************************************************************************)
MaxPaints == 1

MaxFlushes == 2

MaxFailAt == 3

\* sends the transport may reject: one of the first MaxFailAt, the last paired
\* command or the command that leaves rapid-update mode
FailPoints == (1..MaxFailAt) \cup {40, 41}

PatternColor(p, c) == <<2 + ((c[1] + p) % 6), (c[2] + p) % ChannelLevels, p % ChannelLevels>>

ValidCells == {c \in BoundingBox : is_valid(c[1], c[2])}

\* position of a valid cell in the row-major iteration
CellRank(c) ==
    IF c[2] * BOUNDING_BOX_WIDTH + c[1] + 1 > 9
    THEN c[2] * BOUNDING_BOX_WIDTH + c[1]
    ELSE c[2] * BOUNDING_BOX_WIDTH + c[1] + 1

CodecIdle ==
    /\ data = <<>>
    /\ overflow_checks = TRUE
    /\ crashed = FALSE
    /\ msg_generic = Idle
    /\ msg_mk2 = Idle
    /\ device_query = Idle
    /\ version_query = Idle

CanvasInit == CodecIdle /\ CanvasIdle /\ QueryIdle

\* number of cells a frame may paint: any for the first frame, a sample later
RepaintSizes == {0, 1, 40, 41, 60, 80}

FrameSizes(frame) == IF frame = 1 THEN 0..80 ELSE RepaintSizes

\* The application draws a frame once the previous one has reached the device:
\* the first n cells get the colors of the frame's pattern.
Paint ==
    /\ paints < MaxPaints
    /\ canvas_changes(curr_state, new_state) = <<>>
    /\ \E n \in FrameSizes(paints + 1) :
          new_state' = [c \in BoundingBox |->
                           IF is_valid(c[1], c[2]) /\ CellRank(c) <= n
                           THEN PatternColor(paints + 1, c) ELSE new_state[c]]
    /\ paints' = paints + 1
    /\ flush_result' = "Idle"
    /\ UNCHANGED <<curr_state, changes, sent, attempts, reads, failed_at, flushes,
                   device_mode, rapid_cursor, writes, codec_vars, query_vars>>

Flush ==
    /\ flushes < MaxFlushes
    /\ \E chg \in {canvas_changes(curr_state, new_state)} :
       \E steps \in {flush_steps(new_state, chg)} :
       \E fail \in {0} \cup {k \in FailPoints : k <= Len(steps)} :
       \E run \in {run_sends(steps, fail)} :
          /\ changes' = chg
          /\ sent' = [i \in 1..Len(run.delivered) |-> run.delivered[i].cmd]
          /\ attempts' = Len(run.tried)
          /\ reads' = cells_read(run.tried)
          /\ flush_result' = run.result
          /\ failed_at' = fail
          /\ curr_state' = commit(curr_state, new_state, FlushedCells(run.delivered))
          /\ device_mode' = device_mode_after(device_mode, sent')
          /\ rapid_cursor' = rapid_cursor_after(rapid_cursor, sent')
          /\ writes' = device_writes(rapid_cursor, sent')
    /\ flushes' = flushes + 1
    /\ UNCHANGED <<new_state, paints, codec_vars, query_vars>>

CanvasNext == Paint \/ Flush

SpecCanvas == CanvasInit /\ [][CanvasNext]_vars

(***************************************************************************)
(* protocols/query.rs: requests                                            *)
(***************************************************************************)
QUERY_DEVICE_ID_FOR_ANY == 127

MaxRequests == 2

DeviceIdQueries == {[kind |-> "Specific", device_id |-> id] : id \in Byte} \cup {[kind |-> "Any"]}

\* the bytes handed to output.send, or a panic from assert_ne!
request_device_inquiry_unchecked(q) ==
    IF q.kind = "Specific"
    THEN [panic |-> FALSE, bytes |-> <<240, 126, q.device_id, 6, 1, 247>>]
    ELSE [panic |-> FALSE, bytes |-> <<240, 126, QUERY_DEVICE_ID_FOR_ANY, 6, 1, 247>>]

request_device_inquiry(q) ==
    IF q.kind = "Specific"
    THEN IF q.device_id = QUERY_DEVICE_ID_FOR_ANY
         THEN [panic |-> TRUE, bytes |-> <<>>]
         ELSE [panic |-> FALSE, bytes |-> <<240, 126, q.device_id, 6, 1, 247>>]
    ELSE [panic |-> FALSE, bytes |-> <<240, 126, QUERY_DEVICE_ID_FOR_ANY, 6, 1, 247>>]

request_version_inquiry == <<240, 0, 32, 41, 0, 112, 247>>

RequestDeviceInquiry ==
    /\ ~crashed
    /\ requests < MaxRequests
    /\ \E q \in DeviceIdQueries, ok \in BOOLEAN :
       \E call \in {request_device_inquiry(q)} :
          /\ query' = [request |-> "device_inquiry"] @@ q
          /\ wire' = IF call.panic THEN <<>> ELSE <<call.bytes>>
          /\ request_result' = IF call.panic THEN "Panic" ELSE IF ok THEN "Ok" ELSE "Err"
          /\ crashed' = call.panic
    /\ requests' = requests + 1
    /\ UNCHANGED <<data, overflow_checks, msg_generic, msg_mk2, device_query, version_query,
                   canvas_vars>>

RequestVersionInquiry ==
    /\ ~crashed
    /\ requests < MaxRequests
    /\ \E ok \in BOOLEAN :
          /\ query' = [request |-> "version_inquiry", kind |-> "None"]
          /\ wire' = <<request_version_inquiry>>
          /\ request_result' = IF ok THEN "Ok" ELSE "Err"
    /\ requests' = requests + 1
    /\ UNCHANGED <<codec_vars, canvas_vars>>

QueryInit == CodecIdle /\ CanvasIdle /\ QueryIdle

QueryNext == RequestDeviceInquiry \/ RequestVersionInquiry

SpecQuery == QueryInit /\ [][QueryNext]_vars

(***************************************************************************)
(* Geometry: the encoders' note numbers (inverse of decode_grid_button)    *)
(***************************************************************************)
generic_grid_to_wire(x, y) == y * 16 + x

mk2_grid_to_wire(x, y) == (8 - y) * 10 + x + 1

\* grid coordinates the models physically have (grid plus the side column)
GridCoordinates == {<<x, y>> : x \in 0..8, y \in 0..7}

(***************************************************************************)
(* Claims about the codec                                                  *)
(***************************************************************************)
MessageTypes ==
    {"Press", "Release", "TextEndedOrLooped", "DeviceInquiry", "VersionInquiry", "FaderChange"}

DecodeResults == {msg_generic, msg_mk2}

\* buffers C1 names: odd velocity, unknown first byte, version header with a wrong length
NamedMalformed(d) ==
    \/ Len(d) = 3 /\ d[1] = 144 /\ d[3] \notin {0, 127}
    \/ Len(d) = 3 /\ d[1] \notin {144, 176}
    \/ Len(d) >= 6 /\ SubSeq(d, 1, 6) = VersionHeader /\ Len(d) \notin {17, 19, 21}

\* C1: decode_message of each model returns a complete Message or a decode-error
\* value for every buffer and never terminates the process; the named malformed
\* buffers are reported as decode errors.
C1_DecodeReportsErrors ==
    /\ ~crashed
    /\ \A r \in DecodeResults :
          r # Idle =>
             /\ r.type \in MessageTypes \cup {"DecodeError"}
             /\ NamedMalformed(r.input) => r.type = "DecodeError"

IsPhysicalButton(b) ==
    \/ b.kind = "GridButton" /\ b.x <= 8 /\ b.y <= 7
    \/ b.kind = "ControlButton" /\ b.index \in 0..7

generic_notes == {generic_grid_to_wire(c[1], c[2]) : c \in GridCoordinates}

mk2_notes == {mk2_grid_to_wire(c[1], c[2]) : c \in GridCoordinates}

ShortResultPhysical(r, notes) ==
    (r # Idle /\ Len(r.input) = 3) =>
        /\ r.type \in {"Press", "Release"} => IsPhysicalButton(r.button)
        /\ (r.input[1] = 144 /\ r.input[2] \notin notes) => r.type \notin {"Press", "Release"}
        /\ (r.input[1] = 176 /\ r.input[2] \in 104..111 /\ r.type \in {"Press", "Release"}) =>
              r.button = [kind |-> "ControlButton", index |-> r.input[2] - 104]

\* C2: a decoded 3-byte buffer only names elements the model has: grid buttons
\* with x <= 8 and y <= 7 (no u8 underflow on the MK2), control buttons 0..7,
\* MK2 faders b-21; a second byte outside the model's band is never a
\* Press/Release.  (A panic is counted as an error here.)
C2_DecodeOnlyPhysicalElements ==
    /\ ShortResultPhysical(msg_generic, generic_notes)
    /\ ShortResultPhysical(msg_mk2, mk2_notes)
    /\ (msg_mk2 # Idle /\ Len(msg_mk2.input) = 3 /\ msg_mk2.input[1] = 176
        /\ msg_mk2.input[2] \in 21..28) =>
          msg_mk2 = [type |-> "FaderChange", index |-> msg_mk2.input[2] - 21,
                     value |-> msg_mk2.input[3], input |-> msg_mk2.input]

CoordinateOf(b) == <<b.x, b.y>>

PressRecovers(r, to_wire(_, _)) ==
    \A c \in GridCoordinates :
        (r # Idle /\ r.input = <<144, to_wire(c[1], c[2]), 127>>) =>
            r.type = "Press" /\ r.button = [kind |-> "GridButton", x |-> c[1], y |-> c[2]]

\* a note of the grid decodes to a grid coordinate whose note number it is
NoteDecodes(r, notes, to_wire(_, _)) ==
    (r # Idle /\ Len(r.input) = 3 /\ r.input[1] = 144 /\ r.input[2] \in notes
     /\ r.input[3] \in {0, 127}) =>
        /\ r.type \in {"Press", "Release"}
        /\ r.button.kind = "GridButton"
        /\ CoordinateOf(r.button) \in GridCoordinates
        /\ to_wire(r.button.x, r.button.y) = r.input[2]

\* C3: decode_grid_button is a bijection between the grid's note numbers and
\* the valid grid coordinates, inverse to grid_to_wire: every grid note decodes
\* to a valid coordinate whose note it is (so distinct notes never share a
\* coordinate), and the press reply for grid_to_wire(x, y) decodes to Press on
\* GridButton{x, y} for every valid (x, y).
C3_WireGridBijection ==
    /\ NoteDecodes(msg_generic, generic_notes, generic_grid_to_wire)
    /\ NoteDecodes(msg_mk2, mk2_notes, mk2_grid_to_wire)
    /\ PressRecovers(msg_generic, generic_grid_to_wire)
    /\ PressRecovers(msg_mk2, mk2_grid_to_wire)

C3_Witness ==
    /\ data = <<144, mk2_grid_to_wire(8, 7), 127>>
    /\ msg_mk2.type = "Press"
    /\ msg_mk2.button = [kind |-> "GridButton", x |-> 8, y |-> 7]
    /\ msg_generic.type = "Press"
    /\ msg_generic.button = [kind |-> "GridButton", x |-> 3, y |-> 1]

VersionResults == {msg_generic, msg_mk2, version_query}

\* header, 5 bootloader digits, 5 firmware digits, 2 size bytes, 247
ClaimedVersionFormat(d) ==
    Len(d) = 19 /\ SubSeq(d, 1, 6) = VersionHeader /\ d[19] = 247

\* C4: every version-inquiry decoder accepts exactly the 19-byte replies and
\* returns the digit-weighted versions and the big-endian size; all decoders
\* agree on the same buffer.
C4_VersionInquiryDecoded ==
    \A r \in VersionResults :
        r # Idle =>
           /\ (r.type = "VersionInquiry") <=> ClaimedVersionFormat(r.input)
           /\ ClaimedVersionFormat(r.input) =>
                 /\ r.bootloader_version = r.input[7] * 10000 + r.input[8] * 1000
                        + r.input[9] * 100 + r.input[10] * 10 + r.input[11]
                 /\ r.firmware_version = r.input[12] * 10000 + r.input[13] * 1000
                        + r.input[14] * 100 + r.input[15] * 10 + r.input[16]
                 /\ r.bootloader_size = r.input[17] * 256 + r.input[18]

DeviceResults == {msg_generic, msg_mk2, device_query}

ClaimedDeviceFormat(d) ==
    /\ Len(d) = 17
    /\ <<d[1], d[2]>> = <<240, 126>>
    /\ SubSeq(d, 4, 8) = <<6, 2, 0, 32, 41>>
    /\ d[17] = 247

\* C5: each device-inquiry decoder maps the 17-byte reply to device_id = id,
\* family_code = fc1*256+fc2, family_member_code = fmc1*256+fmc2,
\* firmware_revision = d0*1000+d1*100+d2*10+d3, and decodes nothing else as a
\* DeviceInquiry.
C5_DeviceInquiryDecoded ==
    \A r \in DeviceResults :
        r # Idle =>
           /\ (r.type = "DeviceInquiry") <=> ClaimedDeviceFormat(r.input)
           /\ ClaimedDeviceFormat(r.input) =>
                 /\ r.device_id = r.input[3]
                 /\ r.family_code = r.input[9] * 256 + r.input[10]
                 /\ r.family_member_code = r.input[11] * 256 + r.input[12]
                 /\ r.firmware_revision = r.input[13] * 1000 + r.input[14] * 100
                        + r.input[15] * 10 + r.input[16]

ExampleDeviceInquiry ==
    [type |-> "DeviceInquiry", device_id |-> 1, family_code |-> 19, family_member_code |-> 2,
     firmware_revision |-> 1201, input |-> ExampleDeviceReply]

C5_Witness ==
    /\ msg_generic = ExampleDeviceInquiry
    /\ msg_mk2 = ExampleDeviceInquiry
    /\ device_query = ExampleDeviceInquiry

(***************************************************************************)
(* Claims about the Launchpad Mini flush                                   *)
(***************************************************************************)
Min(a, b) == IF a < b THEN a ELSE b

ChangedCell(chg, i) == <<chg[i][1], chg[i][2]>>

\* C6: a flush of n changed cells without send failure sends exactly the n
\* direct light commands in change-list order when n <= 40 and takes the rapid
\* path when n > 40; it sends min(n, 41) messages.
C6_FlushStrategy ==
    flush_result = "Ok" =>
        /\ Len(changes) <= 40 =>
              /\ Len(sent) = Len(changes)
              /\ \A i \in 1..Len(changes) :
                    sent[i] = [call |-> "light",
                               button |-> from_abs(changes[i][1], changes[i][2]),
                               color |-> <<changes[i][3][1], changes[i][3][2]>>]
        /\ Len(changes) > 40 =>
              /\ Len(sent) = 41
              /\ \A i \in 1..40 : sent[i].call = "set_button_rapid"
        /\ Len(sent) = Min(Len(changes), 41)
        /\ attempts = Len(sent)

C6_Witness ==
    /\ flush_result = "Ok"
    /\ Len(changes) = 40
    /\ Len(sent) = 40
    /\ sent[40].call = "light"

\* the traversal C7 states: rows y = 1..8 with x = 0..7, then x = 8 with
\* y = 1..8, then y = 0 with x = 0..7
ClaimedTraversal ==
    [k \in 1..80 |-> IF k <= 64 THEN <<(k - 1) % 8, 1 + (k - 1) \div 8>>
                     ELSE IF k <= 72 THEN <<8, k - 64>>
                     ELSE <<k - 73, 0>>]

\* C7: a successful rapid flush sends 40 paired commands and then one light
\* command; the paired commands read exactly the valid cells, each once, in the
\* fixed traversal order, and carry the quantized pending colors of their two
\* cells; the last command lights control button 0 with the color of cell
\* (0, 0), the color the paired command for that cell carried.
C7_RapidRepaint ==
    (flush_result = "Ok" /\ Len(changes) > 40) =>
        /\ Len(sent) = 41
        /\ \A i \in 1..40 : sent[i].call = "set_button_rapid"
        /\ Len(reads) = 81
        /\ SubSeq(reads, 1, 80) = ClaimedTraversal
        /\ {reads[i] : i \in 1..80} = {c \in BoundingBox : is_valid(c[1], c[2])}
        /\ Cardinality({reads[i] : i \in 1..80}) = 80
        /\ \A i \in 1..40 :
              /\ sent[i].color1 = convert_color(new_state[reads[2 * i - 1]])
              /\ sent[i].color2 = convert_color(new_state[reads[2 * i]])
        /\ sent[41] = [call |-> "light", button |-> [kind |-> "ControlButton", index |-> 0],
                       color |-> convert_color(new_state[<<0, 0>>])]
        /\ reads[73] = <<0, 0>>
        /\ sent[41].color = sent[37].color1

C7_Witness ==
    /\ flush_result = "Ok"
    /\ Len(changes) \in 41..79
    /\ Len(sent) = 41
    /\ sent[41].call = "light"
    /\ sent[41].color # <<0, 0>>

\* C8: when the k-th send of a flush fails, exactly k sends were attempted, the
\* k-1 earlier commands stay sent, nothing planned after the k-th is sent (on
\* the rapid path not even the command leaving rapid mode) and flush returns
\* the error.
C8_FailureAborts ==
    /\ failed_at > 0 =>
          /\ flush_result \in {"Err", "Idle"}
          /\ attempts = failed_at
          /\ Len(sent) = failed_at - 1
          /\ Len(changes) > 40 => \A i \in 1..Len(sent) : sent[i].call = "set_button_rapid"
          /\ Len(changes) <= 40 =>
                \A i \in 1..Len(sent) :
                    sent[i].button = from_abs(changes[i][1], changes[i][2])
    /\ flush_result = "Err" => failed_at > 0

C8_Witness ==
    /\ flush_result = "Err"
    /\ failed_at = 3
    /\ Len(changes) > 40
    /\ attempts = 3
    /\ Len(sent) = 2

FailingFlushStep == flushes' = flushes + 1 /\ flush_result' = "Err"

IsDeviceRequest == "request" \in DOMAIN query /\ query.request = "device_inquiry"

IsVersionRequest == "request" \in DOMAIN query /\ query.request = "version_inquiry"

\* C10: request_device_inquiry sends exactly one message [240,126,id,6,1,247]
\* with id the caller's specific id, always within 0..126, or 127 for Any;
\* Specific(127) is rejected before anything is sent; request_version_inquiry
\* sends exactly [240,0,32,41,0,112,247].
C10_InquiryRequests ==
    /\ (IsDeviceRequest /\ query.kind = "Specific" /\ query.device_id = 127) =>
          wire = <<>> /\ request_result \notin {"Ok", "Err"}
    /\ (IsDeviceRequest /\ query.kind = "Specific" /\ query.device_id # 127) =>
          /\ wire = << <<240, 126, query.device_id, 6, 1, 247>> >>
          /\ wire[1][3] \in 0..126
    /\ (IsDeviceRequest /\ query.kind = "Any") => wire = << <<240, 126, 127, 6, 1, 247>> >>
    /\ IsVersionRequest => wire = << <<240, 0, 32, 41, 0, 112, 247>> >>

(***************************************************************************)
(* Claims about the device's rapid-update mode                             *)
(***************************************************************************)
\* C11: when a flush returns, whether or not a send failed, the device is not
\* in rapid-update mode; the first paired command of a flush finds the cursor
\* at the first cell of the traversal, so every pair of colors is written to
\* the two cells it was read from.
C11_RapidModeTerminated ==
    /\ flush_result \in {"Ok", "Err"} => device_mode = "Normal" /\ rapid_cursor = 0
    /\ Len(writes) > 0 => writes[1] = <<0, 1>>
    /\ \A i \in 1..Len(writes) : i <= Len(reads) /\ writes[i] = reads[i]

====
